---- MODULE Spec2Model ----
(***************************************************************************)
(* Frame scheduler, GPU fences and swapchain recreation controller of the  *)
(* Vulkan tutorial renderer (src/main.cpp).  Two builds of the application *)
(* live in that file: the single-threaded rasterizer ("st", lines 1-1585)  *)
(* and the ray tracer whose draw_frame runs on a render thread ("rt",      *)
(* lines 1959-4772).  The variable `variant` selects the build.            *)
(***************************************************************************)
EXTENDS Integers, Naturals, Sequences, FiniteSets, TLC

\* --- program constants ---------------------------------------------------
MaxFramesInFlight == 2

\* --- bounds of the model -------------------------------------------------
\* largest framebuffer dimension the window system reports
MaxDim == 2
\* number of surprises in a run: resize notifications of the window system plus
\* out-of-date / suboptimal results of the swapchain
MaxEvents == 2
\* number of memory types a device reports, and of property flag bits
MaxMemoryTypes == 3
MaxFlagBits == 2

\* --- values ---------------------------------------------------------------
Variants == {"st", "rt"}
Slots == 0 .. (MaxFramesInFlight - 1)
\* framebuffer sizes the window system reports: minimized (0x0), one dimension
\* collapsed, and the nonzero sizes d x d
Sizes == {<<0, 0>>, <<0, 1>>} \cup { <<d, d>> : d \in 1 .. MaxDim }
\* the size of the window at creation (WindowWidth x WindowHeight)
InitialSize == <<1, 1>>
\* VkSurfaceCapabilitiesKHR::currentExtent.width when the surface does not
\* dictate the extent: std::numeric_limits<std::uint32_t>::max(), which is
\* represented here by the largest integer TLC handles
ExtentSentinel == 2147483647

IsZeroSize(s) == s[1] = 0 \/ s[2] = 0

\* results of vkAcquireNextImageKHR / vkQueuePresentKHR / vkQueueSubmit
AcquireResults == {"ok", "subopt", "ood", "err"}
PresentResults == {"ok", "subopt", "ood", "err"}
SubmitResults == {"ok", "err"}
\* results of vkWaitForFences / vkResetFences / vkDeviceWaitIdle
FenceResults == {"ok", "err"}
WaitIdleResults == {"ok", "err"}
Stale == {"subopt", "ood"}

\* const RenderingMode CurrentRenderingMode: the ray tracer is built with
\* RenderingMode::RayTracing, the rasterizer has no other mode
CurrentRenderingMode(v) == IF v = "rt" THEN "RayTracing" ELSE "Rasterization"

\* index of the uniform buffer that the command buffer of swapchain image i reads:
\* rasterization binds m_descriptor_sets[i], which points at m_uniform_buffers[i];
\* ray tracing binds m_rt_descriptor_set, whose camera binding was written once
\* with m_uniform_buffers[0]
UniformBufferRead(mode, i) == IF mode = "RayTracing" THEN 0 ELSE i

\* --- GPU objects ------------------------------------------------------------
\* objects created by init_vulkan, per build
InitKinds(v) ==
    IF v = "st"
    THEN {"device", "swapchain", "image_views", "render_pass", "descriptor_set_layout",
          "pipeline_layout", "graphics_pipeline", "framebuffers", "command_pools",
          "vertex_buffer", "index_buffer", "uniform_buffers", "descriptor_pool",
          "descriptor_sets", "command_buffers", "sync_objects"}
    ELSE {"device", "swapchain", "image_views", "render_pass", "descriptor_set_layout",
          "pipeline_layout", "graphics_pipeline", "command_pools", "color_attachment",
          "depth_attachment", "framebuffers", "vertex_buffer", "index_buffer",
          "material_buffer", "uniform_buffers", "texture", "acceleration_structures",
          "rt_descriptor_pool", "rt_descriptor_set", "rt_pipeline",
          "rt_shader_binding_table", "descriptor_pool", "descriptor_sets",
          "command_buffers", "sync_objects"}

AllKinds == InitKinds("st") \cup InitKinds("rt")

\* objects destroyed by cleanup_vk_swap_chain
CleanupSwapChainKinds(v) ==
    IF v = "st"
    THEN {"framebuffers", "command_buffers", "graphics_pipeline", "pipeline_layout",
          "render_pass", "image_views", "swapchain"}
    ELSE {"depth_attachment", "color_attachment", "framebuffers", "command_buffers",
          "graphics_pipeline", "pipeline_layout", "render_pass", "image_views",
          "swapchain"}

\* (mutation) the recreation also rebuilds the uniform buffers and descriptors
RecreateKindsWithDescriptors(v) ==
    IF v = "st"
    THEN {"swapchain", "image_views", "render_pass", "graphics_pipeline",
          "pipeline_layout", "framebuffers", "command_buffers",
          "uniform_buffers", "descriptor_pool", "descriptor_sets"}
    ELSE {"swapchain", "image_views", "render_pass", "graphics_pipeline",
          "pipeline_layout", "color_attachment", "depth_attachment", "framebuffers",
          "command_buffers", "uniform_buffers", "descriptor_pool", "descriptor_sets"}

\* objects created by the create_* calls of recreate_vk_swap_chain
RecreateKinds(v) ==
    IF v = "st"
    THEN {"swapchain", "image_views", "render_pass", "graphics_pipeline",
          "pipeline_layout", "framebuffers", "command_buffers"}
    ELSE {"swapchain", "image_views", "render_pass", "graphics_pipeline",
          "pipeline_layout", "color_attachment", "depth_attachment", "framebuffers",
          "command_buffers"}

\* --- surface capabilities ---------------------------------------------------
\* a surface format: << VkFormat, VkColorSpaceKHR >>
PreferredFormat == << "B8G8R8A8_UNORM", "SRGB_NONLINEAR" >>

\* the surfaces a run can meet.  fixed: the surface dictates the extent
\* (currentExtent is the framebuffer size); otherwise currentExtent holds the
\* sentinel and the application chooses within min/maxImageExtent.
SurfaceProfiles ==
    { [minImageCount |-> 1, maxImageCount |-> 1, fixed |-> TRUE,
       formats |-> << << "UNDEFINED", "SRGB_NONLINEAR" >> >>],
      [minImageCount |-> 1, maxImageCount |-> 3, fixed |-> FALSE,
       formats |-> << << "R8G8B8A8_UNORM", "SRGB_NONLINEAR" >>, PreferredFormat >>],
      [minImageCount |-> 1, maxImageCount |-> 0, fixed |-> TRUE,
       formats |-> << PreferredFormat >>],
      [minImageCount |-> 2, maxImageCount |-> 0, fixed |-> FALSE,
       formats |-> << << "R8G8B8A8_UNORM", "SRGB_NONLINEAR" >>,
                      << "B8G8R8A8_UNORM", "EXTENDED_SRGB_LINEAR" >> >>] }

\* what query_vk_swap_chain_support can answer while the framebuffer has size s
SurfaceCaps(s) ==
    { [minImageCount |-> p.minImageCount, maxImageCount |-> p.maxImageCount,
       currentExtent |-> IF p.fixed THEN s ELSE << ExtentSentinel, ExtentSentinel >>,
       minImageExtent |-> IF p.fixed THEN s ELSE << 1, 1 >>,
       maxImageExtent |-> IF p.fixed THEN s ELSE << MaxDim, MaxDim >>,
       formats |-> p.formats] : p \in SurfaceProfiles }

choose_vk_swap_surface_format(available_formats) ==
    IF Len(available_formats) = 1 /\ available_formats[1][1] = "UNDEFINED"
    THEN PreferredFormat
    ELSE IF \E i \in DOMAIN available_formats : available_formats[i] = PreferredFormat
         THEN PreferredFormat
         ELSE available_formats[1]

\* (mutation) the window size is returned as it is
choose_vk_swap_extent_unclamped(caps, window) ==
    IF caps.currentExtent[1] # ExtentSentinel THEN caps.currentExtent ELSE window

\* std::clamp
Clamp(v, lo, hi) == IF v < lo THEN lo ELSE IF hi < v THEN hi ELSE v

choose_vk_swap_extent(caps, window) ==
    IF caps.currentExtent[1] # ExtentSentinel
    THEN caps.currentExtent
    ELSE << Clamp(window[1], caps.minImageExtent[1], caps.maxImageExtent[1]),
            Clamp(window[2], caps.minImageExtent[2], caps.maxImageExtent[2]) >>

\* --- functions of device-reported data ---------------------------------------
\* bitwise and of two unsigned values
RECURSIVE BitAnd(_, _)
BitAnd(a, b) ==
    IF a = 0 \/ b = 0 THEN 0
    ELSE (a % 2) * (b % 2) + 2 * BitAnd(a \div 2, b \div 2)

Returned(v) == [done |-> TRUE, thrown |-> FALSE, value |-> v]
Thrown == [done |-> TRUE, thrown |-> TRUE, value |-> 0]

\* the for loop of vku_find_memory_type from index i on; memoryTypes[i] is
\* types[i + 1], its propertyFlags
RECURSIVE FindMemoryTypeFrom(_, _, _, _)
FindMemoryTypeFrom(i, types, type_filter, properties) ==
    IF i >= Len(types) THEN Thrown
    ELSE IF /\ BitAnd(type_filter, 2 ^ i) # 0
            /\ BitAnd(types[i + 1], properties) = properties
         THEN Returned(i)
         ELSE FindMemoryTypeFrom(i + 1, types, type_filter, properties)

\* (mutation) a memory type with any one of the required flags is accepted
RECURSIVE FindMemoryTypeAnyFlagFrom(_, _, _, _)
FindMemoryTypeAnyFlagFrom(i, types, type_filter, properties) ==
    IF i >= Len(types) THEN Thrown
    ELSE IF /\ BitAnd(type_filter, 2 ^ i) # 0
            /\ BitAnd(types[i + 1], properties) # 0
         THEN Returned(i)
         ELSE FindMemoryTypeAnyFlagFrom(i + 1, types, type_filter, properties)

vku_find_memory_type_any_flag(types, type_filter, properties) ==
    FindMemoryTypeAnyFlagFrom(0, types, type_filter, properties)

vku_find_memory_type(types, type_filter, properties) ==
    FindMemoryTypeFrom(0, types, type_filter, properties)

\* VK_SAMPLE_COUNT_1_BIT .. VK_SAMPLE_COUNT_64_BIT are the bits 0 .. 6
SampleCountBits == 7

\* the if / else if chain over counts, from bit b downwards
RECURSIVE HighestSampleCountFrom(_, _)
HighestSampleCountFrom(b, counts) ==
    IF b = 0 THEN 1
    ELSE IF BitAnd(counts, 2 ^ b) # 0 THEN 2 ^ b
         ELSE HighestSampleCountFrom(b - 1, counts)

\* counts = std::min(framebufferColorSampleCounts, framebufferDepthSampleCounts):
\* the smaller of the two masks taken as numbers
get_vk_max_usable_sample_count(color, depth) ==
    HighestSampleCountFrom(SampleCountBits - 1, IF depth < color THEN depth ELSE color)

\* --- state ----------------------------------------------------------------
VARIABLES
    variant,                \* which build runs: "st" or "rt"
    pc,                     \* position of the thread that runs draw_frame
    ret,                    \* where recreate_vk_swap_chain returns to
    current_frame,          \* frame slot index of main_loop
    fence,                  \* m_in_flight_fences: TRUE = signaled
    pending,                \* submissions the GPU has not completed, oldest first:
                            \* the fence slot, the command buffers' generation and
                            \* the uniform buffer the command buffer reads
    fb,                     \* the window's framebuffer size (glfwGetFramebufferSize)
    m_window,               \* rt: m_window_width, m_window_height
    rc_window,              \* st: window_width, window_height of recreate_vk_swap_chain
    m_framebuffer_resized,  \* the resize flag
    shouldClose,            \* glfwWindowShouldClose
    stop,                   \* rt: the render thread's stop flag
    image_index,            \* image index acquired by the running draw_frame
    image_count,            \* m_swap_chain_images.size()
    m_swap_chain_extent,
    m_swap_chain_surface_format,
    built,                  \* history: the capabilities and window size that the
                            \* last create_vk_swap_chain saw, and whether they
                            \* were those of the one before
    rt_output_view,         \* rt: the image view bound at binding 1 (output image) of
                            \* m_rt_descriptor_set: << generation, image index >>
    image_available,        \* m_image_available_semaphores: TRUE = signaled
    render_finished,        \* m_render_finished_semaphores: TRUE = signaled
    presents,               \* present requests that wait for their semaphore
    run,                    \* where the main thread is in run() and main()
    exit_code,              \* main's exit_code
    m_uniform_buffers,      \* number of uniform buffers create_vk_uniform_buffers made
    stray_destroy,          \* cleanup_vulkan destroyed past the end of m_uniform_buffers
    fn_in,                  \* the function called with device-reported data, and its arguments
    fn_out,                 \* what that call returned or that it threw
    image_layout,           \* layout of each swapchain image once the submitted work ran
    rt_as,                  \* the ray-tracing acceleration structures being built
    handle,                 \* per kind of object: the handle the application holds
    alive,                  \* per kind of object: whether that handle is alive
    eventsLeft,             \* resize notifications and stale results still to come
    log,                    \* history: what the running draw_frame did so far
    prev_present,           \* history: result of the previous draw_frame's present
    zero_acquires           \* history: acquisitions since a framebuffer dimension became 0

vars == << variant, pc, ret, current_frame, fence, pending, fb, m_window, rc_window,
           m_framebuffer_resized, shouldClose, stop, image_index, image_count,
           m_swap_chain_extent, m_swap_chain_surface_format, built, rt_output_view,
           image_available, render_finished, presents, run, exit_code,
           m_uniform_buffers, stray_destroy, fn_in, fn_out, image_layout, rt_as,
           handle, alive, eventsLeft, log, prev_present, zero_acquires >>

\* (mutation) the image count depends on which swapchain came before
SwapChainImageCountByGeneration(caps) ==
    IF handle["swapchain"] = 0 THEN caps.minImageCount + 1 ELSE caps.minImageCount + 2

\* image_count of create_vk_swap_chain
SwapChainImageCount(caps) ==
    IF caps.maxImageCount > 0
    THEN IF caps.minImageCount + 1 < caps.maxImageCount
         THEN caps.minImageCount + 1 ELSE caps.maxImageCount
    ELSE caps.minImageCount + 1

windowVars == << fb, shouldClose, stop >>
swapVars == << image_count, m_swap_chain_extent, m_swap_chain_surface_format,
              handle, alive, built >>
descVars == << rt_output_view >>
semVars == << image_available, render_finished, presents >>
runVars == << run, exit_code, m_uniform_buffers, stray_destroy >>
fnVars == << fn_in, fn_out >>
initVars == << rt_as >>
\* vkCreateSwapchainKHR hands out its images in VK_IMAGE_LAYOUT_UNDEFINED
NewImages(count) == [i \in 0 .. (count - 1) |-> "UNDEFINED"]
\* no call of a device-data function is under study
NoCall == [fn |-> "none"]
NotReturned == [done |-> FALSE, thrown |-> FALSE, value |-> 0]
\* binding 1 before the first update_vk_rt_render_target: not written
NoImageView == << -1, -1 >>

Has(e) == \E i \in DOMAIN log : log[i] = e
\* event a occurs in the log and event b occurs after it
Then(a, b) == \E i, j \in DOMAIN log : i < j /\ log[i] = a /\ log[j] = b
Count(e) == Cardinality({ i \in DOMAIN log : log[i] = e })

\* (mutation) fences created without VK_FENCE_CREATE_SIGNALED_BIT
CreateFencesUnsignaled == [f \in Slots |-> FALSE]

\* create_vk_sync_objects: fences are created with VK_FENCE_CREATE_SIGNALED_BIT
CreateFences == [f \in Slots |-> TRUE]

InitApp ==
    /\ variant \in Variants
    /\ pc = "loop"
    /\ ret = "end"
    /\ current_frame = 0
    /\ fence = CreateFences
    /\ pending = << >>
    /\ fb = InitialSize
    /\ m_window = InitialSize
    /\ rc_window = InitialSize
    /\ m_framebuffer_resized = FALSE
    /\ shouldClose = FALSE
    /\ stop = FALSE
    /\ image_index = 0
    /\ rt_output_view = NoImageView
    /\ image_available = [f \in Slots |-> FALSE]
    /\ render_finished = [f \in Slots |-> FALSE]
    /\ presents = << >>
    /\ run = "main_loop"
    /\ exit_code = 1
    /\ stray_destroy = FALSE
    /\ handle = [k \in AllKinds |-> 0]
    /\ alive = [k \in AllKinds |-> k \in InitKinds(variant)]
    /\ \E caps \in SurfaceCaps(InitialSize) :
           /\ image_count = SwapChainImageCount(caps)
           /\ m_uniform_buffers = SwapChainImageCount(caps)
           /\ image_layout = NewImages(SwapChainImageCount(caps))
           /\ m_swap_chain_extent = choose_vk_swap_extent(caps, InitialSize)
           /\ m_swap_chain_surface_format = choose_vk_swap_surface_format(caps.formats)[1]
           /\ built = [caps |-> caps, window |-> InitialSize, repeat |-> FALSE]
    /\ eventsLeft = MaxEvents
    /\ log = << >>
    /\ prev_present = "none"
    /\ zero_acquires = 0

\* --- init_vulkan: the ray-tracing acceleration structures ----------------------
\* what m_rt_top_level_as_gen.AddInstance is given: the bottom-level structure
\* and glm::mat4x4(1.0f)
OnlyInstance == [structure |-> "blas", transform |-> "identity"]
\* create_vk_rt_acceleration_structures has not been entered
AsNotStarted ==
    [step |-> "begin", commands |-> << >>, instances |-> << >>, executed |-> 0,
     descriptor_set |-> "none"]
\* the state init_vulkan leaves behind in the ray tracer
AsDone ==
    [step |-> "done", commands |-> << "build_blas", "build_tlas" >>,
     instances |-> << OnlyInstance >>, executed |-> 2, descriptor_set |-> "built"]
\* the rasterizer builds no acceleration structure
AsNone ==
    [step |-> "done", commands |-> << >>, instances |-> << >>, executed |-> 0,
     descriptor_set |-> "none"]
\* the structure a recorded build command builds
StructureOf(command) == IF command = "build_blas" THEN "blas" ELSE "tlas"
\* the structures whose build the GPU has completed
Built(a) == { StructureOf(a.commands[i]) : i \in 1 .. a.executed }

Init ==
    /\ InitApp /\ fn_in = NoCall /\ fn_out = NotReturned
    /\ rt_as = IF variant = "rt" THEN AsDone ELSE AsNone

\* init_vulkan is about to call create_vk_rt_acceleration_structures
InitVulkanInit ==
    /\ InitApp /\ fn_in = NoCall /\ fn_out = NotReturned
    /\ rt_as = IF variant = "rt" THEN AsNotStarted ELSE AsNone

AsUnchanged ==
    UNCHANGED << variant, pc, ret, current_frame, fence, pending, m_window, rc_window,
                 m_framebuffer_resized, image_index, eventsLeft, log, prev_present,
                 zero_acquires, windowVars, swapVars, descVars, semVars, runVars,
                 fnVars, image_layout >>

\* vku_begin_single_time_commands: allocates one command buffer and begins it;
\* a failing vkBeginCommandBuffer throws
vku_begin_single_time_commands ==
    /\ rt_as.step = "begin"
    /\ \E r \in {"ok", "err"} :
           rt_as' = [rt_as EXCEPT !.step = IF r = "ok" THEN "blas" ELSE "failed"]
    /\ AsUnchanged

\* create_vk_rt_bottom_level_as(command_buffer): creates the bottom-level
\* structure and records its build
create_vk_rt_bottom_level_as ==
    /\ rt_as.step = "blas"
    /\ rt_as' = [rt_as EXCEPT !.step = "instance",
                               !.commands = Append(@, "build_blas")]
    /\ AsUnchanged

\* m_rt_top_level_as_gen.AddInstance(m_rt_bottom_level_as.m_structure, identity)
AddInstance ==
    /\ rt_as.step = "instance"
    /\ rt_as' = [rt_as EXCEPT !.step = "tlas", !.instances = Append(@, OnlyInstance)]
    /\ AsUnchanged

\* CreateAccelerationStructure, the three buffers, and Generate, which records
\* the build of the top-level structure into the same command buffer
GenerateTopLevel ==
    /\ rt_as.step = "tlas"
    /\ rt_as' = [rt_as EXCEPT !.step = "end", !.commands = Append(@, "build_tlas")]
    /\ AsUnchanged

\* vku_end_single_time_commands, first half: vkEndCommandBuffer, vkQueueSubmit
AsQueueSubmit ==
    /\ rt_as.step = "end"
    /\ rt_as' = [rt_as EXCEPT !.step = "wait_idle"]
    /\ AsUnchanged

\* the GPU executes the next command of the submitted command buffer
AsGpuExecute ==
    /\ rt_as.step \in {"wait_idle", "descriptor_set", "done"}
    /\ rt_as.executed < Len(rt_as.commands)
    /\ rt_as' = [rt_as EXCEPT !.executed = @ + 1]
    /\ AsUnchanged

\* (mutation) vkQueueWaitIdle returns while the queue still has work
QueueIdleNotAwaited(a) == TRUE

\* vkQueueWaitIdle returns once the queue has executed all it was given
QueueIdle(a) == a.executed = Len(a.commands)

\* vku_end_single_time_commands, second half: vkQueueWaitIdle, then the command
\* buffer is freed and create_vk_rt_acceleration_structures returns
AsQueueWaitIdle ==
    /\ rt_as.step = "wait_idle"
    /\ QueueIdle(rt_as)
    /\ rt_as' = [rt_as EXCEPT !.step = "descriptor_set"]
    /\ AsUnchanged

\* create_vk_rt_descriptor_set: binding 0 is written with m_rt_top_level_as
create_vk_rt_descriptor_set ==
    /\ rt_as.step = "descriptor_set"
    /\ rt_as' = [rt_as EXCEPT !.step = "done",
                               !.descriptor_set =
                                   IF "tlas" \in Built(rt_as) THEN "built" ELSE "unbuilt"]
    /\ AsUnchanged


\* --- the window system ------------------------------------------------------
\* A resize of the framebuffer to size s; GLFW then runs
\* framebuffer_resize_callback, which sets the resize flag.
framebuffer_resize_callback(s) ==
    /\ eventsLeft > 0
    /\ eventsLeft' = eventsLeft - 1
    /\ fb' = s
    /\ m_framebuffer_resized' = TRUE
    /\ zero_acquires' = IF IsZeroSize(s) /\ IsZeroSize(fb) THEN zero_acquires ELSE 0

\* st: glfwPollEvents at the top of main_loop's body runs the callbacks of the
\* events that arrived: nothing, a resize, or a request to close the window.
PollEventsOf(events) ==
    /\ variant = "st"
    /\ pc = "poll"
    /\ pc' = "wait"
    /\ \/ /\ "none" \in events
          /\ UNCHANGED << fb, m_framebuffer_resized, eventsLeft, zero_acquires, shouldClose >>
       \/ /\ "resize" \in events
          /\ \E s \in Sizes : framebuffer_resize_callback(s)
          /\ UNCHANGED shouldClose
       \/ /\ "close" \in events
          /\ shouldClose' = TRUE
          /\ UNCHANGED << fb, m_framebuffer_resized, eventsLeft, zero_acquires >>
    /\ UNCHANGED << variant, ret, current_frame, fence, pending, m_window, rc_window,
                    stop, image_index, swapVars, descVars, semVars, runVars, fnVars, initVars, image_layout,
                    log, prev_present >>

PollEvents == PollEventsOf({"none", "resize", "close"})

\* rt: the event thread sits in glfwWaitEvents while the render thread draws;
\* a resize runs the callback on the event thread.
EventThreadResize ==
    /\ variant = "rt"
    /\ ~shouldClose
    /\ pc \notin {"stopped", "fatal"}
    /\ \E s \in Sizes : framebuffer_resize_callback(s)
    /\ UNCHANGED << variant, pc, ret, current_frame, fence, pending, m_window, rc_window,
                    shouldClose, stop, image_index, swapVars, descVars, semVars, runVars, fnVars, initVars, image_layout, log, prev_present >>

\* rt: key_callback or the close button makes glfwWindowShouldClose true; the
\* event loop of main_loop ends and sets stop = true
EventThreadClose ==
    /\ variant = "rt"
    /\ ~shouldClose
    /\ pc \notin {"stopped", "fatal"}
    /\ shouldClose' = TRUE
    /\ stop' = TRUE
    /\ UNCHANGED << variant, pc, ret, current_frame, fence, pending, fb, m_window,
                    rc_window, m_framebuffer_resized, image_index, swapVars, descVars, semVars, runVars, fnVars, initVars, image_layout,
                    eventsLeft, log,
                    prev_present, zero_acquires >>

\* --- semaphores --------------------------------------------------------------
\* vkAcquireNextImageKHR(..., m_image_available_semaphores[current_frame], ...)
AcquireSemaphore(f) == f
\* wait_semaphores[] = { m_image_available_semaphores[current_frame] }
SubmitWaitSemaphore(f) == f
\* signal_semaphores[] = { m_render_finished_semaphores[current_frame] }
SubmitSignalSemaphore(f) == f

\* (mutation) the present waits on the semaphore of the other slot
PresentWaitSemaphoreOtherSlot(f) == (f + 1) % MaxFramesInFlight

\* present_info.pWaitSemaphores = signal_semaphores
PresentWaitSemaphore(f) == f

\* position in q of the first present request that waits on semaphore s, or 0
FirstWaiting(q, s) ==
    IF \E j \in DOMAIN q : q[j].wait = s
    THEN CHOOSE j \in DOMAIN q : q[j].wait = s /\ \A k \in 1 .. (j - 1) : q[k].wait # s
    ELSE 0

RemoveAt(q, j) == SubSeq(q, 1, j - 1) \o SubSeq(q, j + 1, Len(q))

\* the image of the frame submitted with fence slot f goes to the presentation
\* engine: noted on the frame's submission if that is still running
HandToPresentation(p, f) ==
    [i \in DOMAIN p |-> IF p[i].slot = f THEN [p[i] EXCEPT !.handed = TRUE] ELSE p[i]]

\* the process has neither returned from main nor been terminated
ProcessRuns(r) == r \notin {"exited", "terminated", "crashed"}

\* The oldest submission, whose wait semaphore is signaled, completes: it
\* unsignals that semaphore and signals its fence and its signal semaphore.  A
\* present request that waits on that semaphore then runs: it unsignals the
\* semaphore and, unless the request was rejected, hands its image over.
GpuComplete ==
    /\ ProcessRuns(run)
    /\ pending # << >>
    /\ image_available[Head(pending).wait]
    /\ image_available' = [image_available EXCEPT ![Head(pending).wait] = FALSE]
    /\ fence' = [fence EXCEPT ![Head(pending).slot] = TRUE]
    /\ LET s == Head(pending).signal
           j == FirstWaiting(presents, s) IN
       IF j = 0
       THEN /\ render_finished' = [render_finished EXCEPT ![s] = TRUE]
            /\ pending' = Tail(pending)
            /\ presents' = presents
       ELSE /\ render_finished' = render_finished
            /\ pending' = IF presents[j].shows
                          THEN HandToPresentation(Tail(pending), presents[j].slot)
                          ELSE Tail(pending)
            /\ presents' = RemoveAt(presents, j)
    /\ UNCHANGED << variant, pc, ret, current_frame, fb, m_window, rc_window,
                    m_framebuffer_resized, shouldClose, stop, image_index, swapVars,
                    descVars, eventsLeft, log, prev_present, zero_acquires, runVars, fnVars, initVars, image_layout >>

\* --- main_loop and draw_frame -----------------------------------------------
\* first step of recreate_vk_swap_chain: st reads the framebuffer size, rt goes
\* straight to vkDeviceWaitIdle
RecreateEntry(v) == IF v = "st" THEN "rc_size" ELSE "rc_idle"

\* the test of main_loop's while: glfwWindowShouldClose (st), the stop flag (rt)
MainLoopTest ==
    /\ pc = "loop"
    /\ pc' = IF variant = "st"
             THEN (IF shouldClose THEN "stopped" ELSE "poll")
             ELSE (IF stop THEN "stopped" ELSE "wait")
    /\ UNCHANGED << variant, ret, current_frame, fence, pending, m_window, rc_window,
                    m_framebuffer_resized, image_index, eventsLeft, log, prev_present,
                    zero_acquires, windowVars, swapVars, descVars, semVars, runVars, fnVars, initVars, image_layout >>

\* (mutation) draw_frame does not wait for the slot's fence
FenceWaitSkipped(f) == TRUE

\* vkWaitForFences(..., UINT64_MAX) returns once the slot's fence is signaled
FenceWaitReturns(f) == fence[f]

\* the return value of vkWaitForFences is not looked at: after a failure, which
\* may come before the fence is signaled, draw_frame goes on as after a success
WaitFenceOf(results) ==
    /\ pc = "wait"
    /\ \E r \in results :
          /\ r = "ok" => FenceWaitReturns(current_frame)
          /\ r # "ok" => eventsLeft > 0
          /\ eventsLeft' = IF r = "ok" THEN eventsLeft ELSE eventsLeft - 1
          /\ log' = IF r = "ok" THEN log ELSE Append(log, "wait_" \o r)
    /\ pc' = IF variant = "rt" THEN "check" ELSE "acquire"
    /\ UNCHANGED << variant, ret, current_frame, fence, pending, m_window, rc_window,
                    m_framebuffer_resized, image_index, prev_present,
                    zero_acquires, windowVars, swapVars, descVars, semVars, runVars, fnVars, initVars, image_layout >>

WaitFence == WaitFenceOf({"ok"})

\* rt: if (m_window_width == 0 || m_window_height == 0 || m_framebuffer_resized)
CheckResize ==
    /\ variant = "rt"
    /\ pc = "check"
    /\ IF IsZeroSize(m_window) \/ m_framebuffer_resized
       THEN pc' = "query" /\ log' = Append(log, "resize_check")
       ELSE pc' = "acquire" /\ log' = log
    /\ UNCHANGED << variant, ret, current_frame, fence, pending, m_window, rc_window,
                    m_framebuffer_resized, image_index, eventsLeft, prev_present,
                    zero_acquires, windowVars, swapVars, descVars, semVars, runVars, fnVars, initVars, image_layout >>

\* rt: glfwGetFramebufferSize into m_window_width/height; return if it is zero
QuerySize ==
    /\ variant = "rt"
    /\ pc = "query"
    /\ m_window' = fb
    /\ IF IsZeroSize(fb)
       THEN pc' = "end" /\ log' = Append(log, "size0")
       ELSE pc' = "clear" /\ log' = log
    /\ UNCHANGED << variant, ret, current_frame, fence, pending, rc_window,
                    m_framebuffer_resized, image_index, eventsLeft, prev_present,
                    zero_acquires, windowVars, swapVars, descVars, semVars, runVars, fnVars, initVars, image_layout >>

\* rt: m_framebuffer_resized = false; recreate_vk_swap_chain();
ClearFlag ==
    /\ variant = "rt"
    /\ pc = "clear"
    /\ m_framebuffer_resized' = FALSE
    /\ pc' = RecreateEntry(variant)
    /\ ret' = "acquire"
    /\ log' = Append(log, "recreate")
    /\ UNCHANGED << variant, current_frame, fence, pending, m_window, rc_window,
                    image_index, eventsLeft, prev_present, zero_acquires, windowVars,
                    swapVars, descVars, semVars, runVars, fnVars, initVars, image_layout >>

\* (mutation) an out-of-date acquisition is treated like a suboptimal one
AfterAcquireNoAbort(v, r) ==
    IF r \notin {"ok", "subopt", "ood"} THEN "fatal" ELSE "reset"

\* (mutation) a suboptimal acquisition aborts the frame like an out-of-date one
AfterAcquireSuboptimalAborts(v, r) ==
    IF r \in {"ood", "subopt"} THEN RecreateEntry(v)
    ELSE IF r # "ok" THEN "fatal"
    ELSE "reset"

\* where draw_frame goes after vkAcquireNextImageKHR returned r
AfterAcquire(v, r) ==
    IF r = "ood" THEN RecreateEntry(v)
    ELSE IF r \notin {"ok", "subopt"} THEN "fatal"
    ELSE "reset"

AcquireOf(results) ==
    /\ pc = "acquire"
    /\ \E r \in results, i \in 0 .. (image_count - 1) :
          /\ r \in Stale => eventsLeft > 0
          /\ eventsLeft' = IF r \in Stale THEN eventsLeft - 1 ELSE eventsLeft
          /\ pc' = AfterAcquire(variant, r)
          /\ image_index' = IF pc' = "reset" THEN i ELSE image_index
          /\ ret' = IF r = "ood" THEN "end" ELSE ret
          /\ log' = IF r = "ood" THEN log \o << "acq_ood", "recreate" >>
                    ELSE Append(log, "acq_" \o r)
          /\ image_available' =
                IF r \in {"ok", "subopt"}
                THEN [image_available EXCEPT ![AcquireSemaphore(current_frame)] = TRUE]
                ELSE image_available
    /\ zero_acquires' = IF IsZeroSize(fb) /\ zero_acquires < 2
                        THEN zero_acquires + 1 ELSE zero_acquires
    /\ UNCHANGED << variant, current_frame, fence, pending, m_window, rc_window,
                    m_framebuffer_resized, prev_present, windowVars, swapVars,
                    descVars, render_finished, presents, runVars, fnVars, initVars, image_layout >>

Acquire == AcquireOf(AcquireResults)

\* vkResetFences on the slot's fence; its return value is not looked at: after
\* a failure the fence is as it was and draw_frame goes on
ResetFenceOf(results) ==
    /\ pc = "reset"
    /\ \E r \in results :
          /\ r # "ok" => eventsLeft > 0
          /\ eventsLeft' = IF r = "ok" THEN eventsLeft ELSE eventsLeft - 1
          /\ fence' = IF r = "ok" THEN [fence EXCEPT ![current_frame] = FALSE] ELSE fence
          /\ log' = Append(log, IF r = "ok" THEN "reset" ELSE "reset_" \o r)
    /\ pc' = "record"
    /\ UNCHANGED << variant, ret, current_frame, pending, m_window, rc_window,
                    m_framebuffer_resized, image_index, prev_present,
                    zero_acquires, windowVars, swapVars, descVars, semVars, runVars, fnVars, initVars, image_layout >>

ResetFence == ResetFenceOf({"ok"})

\* m_swap_chain_image_views[i]
SwapChainImageView(i) == << handle["image_views"], i >>

\* (mutation) binding 1 is left as the previous frame wrote it
update_vk_rt_render_target_skipped(target_image_view) == rt_output_view

\* what binding 1 of m_rt_descriptor_set references after the call
update_vk_rt_render_target(target_image_view) == target_image_view

\* update_vk_uniform_buffer(image_index) writes m_uniform_buffers_memory[image_index];
\* rt: re-record the command buffer, with update_vk_rt_render_target before
\* vkCmdTraceRaysNV
\* (mutation) draw_frame waits for the device before it rewrites the binding
RenderTargetUpdateWhenIdle(p) == p = << >>

\* between vkResetFences and update_vk_rt_render_target draw_frame waits for
\* nothing: the update goes ahead whatever the GPU still runs
RenderTargetUpdateReady(p) == TRUE

Record ==
    /\ pc = "record"
    /\ RenderTargetUpdateReady(pending)
    /\ pc' = "submit"
    /\ log' = Append(log, "record")
    /\ rt_output_view' =
          IF CurrentRenderingMode(variant) = "RayTracing"
          THEN update_vk_rt_render_target(SwapChainImageView(image_index))
          ELSE rt_output_view
    /\ UNCHANGED << variant, ret, current_frame, fence, pending, m_window, rc_window,
                    m_framebuffer_resized, image_index, eventsLeft, prev_present,
                    zero_acquires, windowVars, swapVars, semVars, runVars, fnVars, initVars, image_layout >>

\* the old layout that the barrier recorded by the ray-tracing draw_frame
\* declares for the swapchain image
BarrierOldLayout == "PRESENT_SRC_KHR"

\* color_resolve_attachment.finalLayout: the layout the render pass leaves the
\* swapchain image in
RenderPassFinalLayout == "PRESENT_SRC_KHR"

\* vkQueueSubmit of m_command_buffers[image_index] with the slot's fence; the
\* work it queues runs after all work queued before and leaves the image in the
\* final layout of the render pass
SubmitOf(results) ==
    /\ pc = "submit"
    /\ \E r \in results :
          IF r = "ok"
          THEN /\ pending' = Append(pending,
                    [slot |-> current_frame,
                     wait |-> SubmitWaitSemaphore(current_frame),
                     signal |-> SubmitSignalSemaphore(current_frame),
                     handed |-> FALSE,
                     image |-> image_index,
                     cb |-> handle["command_buffers"],
                     ubo |-> UniformBufferRead(CurrentRenderingMode(variant),
                                               image_index)])
               /\ image_layout' = [image_layout EXCEPT ![image_index] = RenderPassFinalLayout]
               /\ pc' = "present"
               /\ log' = Append(log, "submit")
          ELSE /\ pc' = "fatal"
               /\ UNCHANGED << pending, log, image_layout >>
    /\ UNCHANGED << variant, ret, current_frame, fence, m_window, rc_window,
                    m_framebuffer_resized, image_index, eventsLeft, prev_present,
                    zero_acquires, windowVars, swapVars, descVars, semVars, runVars, fnVars, initVars >>

Submit == SubmitOf(SubmitResults)

\* (mutation) the resize flag is not tested after presentation
PresentRecreatesResultOnly(v, r, resized) == r \in Stale

\* (mutation) an out-of-date presentation is not among the handled results
PresentRecreatesNotOutOfDate(v, r, resized) ==
    IF v = "st" THEN r = "subopt" \/ resized ELSE r = "subopt"

\* the test after vkQueuePresentKHR returned r that calls recreate_vk_swap_chain:
\* st also tests the resize flag there, rt tests the result alone
PresentRecreates(v, r, resized) ==
    IF v = "st" THEN r \in Stale \/ resized ELSE r \in Stale

\* vkQueuePresentKHR queues a present request that waits on its semaphore, also
\* when it returns an error; a rejected request hands no image over.
PresentOf(results) ==
    /\ pc = "present"
    /\ \E r \in results :
          LET recreates == PresentRecreates(variant, r, m_framebuffer_resized) IN
          /\ r \in Stale => eventsLeft > 0
          /\ eventsLeft' = IF r \in Stale THEN eventsLeft - 1 ELSE eventsLeft
          /\ log' = log \o (IF m_framebuffer_resized THEN << "flag_set" >> ELSE << >>)
                        \o << "pres_" \o r >>
                        \o (IF recreates THEN << "recreate" >> ELSE << >>)
          /\ m_framebuffer_resized' =
                IF variant = "st" /\ recreates THEN FALSE ELSE m_framebuffer_resized
          /\ pc' = IF recreates THEN RecreateEntry(variant)
                   ELSE IF r # "ok" THEN "fatal" ELSE "end"
          /\ ret' = IF recreates THEN "end" ELSE ret
          /\ LET w == PresentWaitSemaphore(current_frame) IN
             IF render_finished[w]
             THEN /\ render_finished' = [render_finished EXCEPT ![w] = FALSE]
                  /\ pending' = IF r \in {"ok", "subopt"}
                                THEN HandToPresentation(pending, current_frame)
                                ELSE pending
                  /\ presents' = presents
             ELSE /\ presents' = Append(presents, [wait |-> w, slot |-> current_frame,
                                                    shows |-> r \in {"ok", "subopt"}])
                  /\ UNCHANGED << render_finished, pending >>
    /\ UNCHANGED << variant, current_frame, fence, m_window, rc_window,
                    image_index, prev_present, zero_acquires, windowVars, swapVars,
                    descVars, image_available, runVars, fnVars, initVars, image_layout >>

Present == PresentOf(PresentResults)

\* --- recreate_vk_swap_chain ----------------------------------------------------
\* st: the test that guards the wait loop: if (window_width == 0 && window_height == 0)
EntersWaitLoop(s) == s[1] = 0 /\ s[2] = 0

\* st: glfwGetFramebufferSize(m_window, &window_width, &window_height) and the if
RcSize ==
    /\ variant = "st"
    /\ pc = "rc_size"
    /\ rc_window' = fb
    /\ IF EntersWaitLoop(fb)
       THEN pc' = "rc_wait" /\ log' = Append(log, "minimized")
       ELSE pc' = "rc_idle" /\ log' = log
    /\ UNCHANGED << variant, ret, current_frame, fence, pending, m_window,
                    m_framebuffer_resized, image_index, eventsLeft, prev_present,
                    zero_acquires, windowVars, swapVars, descVars, semVars, runVars, fnVars, initVars, image_layout >>

\* st: while (window_width == 0 || window_height == 0)
\*         { glfwWaitEvents(); glfwGetFramebufferSize(...); }
\* glfwWaitEvents returns when an event arrived and its callback has run.
RcWait ==
    /\ variant = "st"
    /\ pc = "rc_wait"
    /\ IsZeroSize(rc_window)
    /\ \/ /\ \E s \in Sizes : framebuffer_resize_callback(s)
          /\ UNCHANGED shouldClose
       \/ /\ ~shouldClose
          /\ shouldClose' = TRUE
          /\ UNCHANGED << fb, m_framebuffer_resized, eventsLeft, zero_acquires >>
    /\ rc_window' = fb'
    /\ pc' = IF IsZeroSize(fb') THEN "rc_wait" ELSE "rc_idle"
    /\ UNCHANGED << variant, ret, current_frame, fence, pending, m_window, stop,
                    image_index, log, prev_present, swapVars, descVars, semVars, runVars, fnVars, initVars, image_layout >>

\* (mutation) recreate_vk_swap_chain does not wait for the device
DeviceIdleNotAwaited(p) == TRUE

\* vkDeviceWaitIdle returns once the GPU has completed every submission
DeviceIdle(p) == p = << >>

\* the size create_vk_swap_chain hands to choose_vk_swap_extent: st asks GLFW
\* again, rt uses m_window_width / m_window_height
SwapExtentWindow(v) == IF v = "st" THEN fb ELSE m_window

\* vkDeviceWaitIdle; cleanup_vk_swap_chain; create_vk_swap_chain and the other
\* create_* calls.  vkCreateSwapchainKHR with a zero imageExtent is invalid
\* usage: it may fail (the code throws) or hand back a swapchain.
\* The return value of vkDeviceWaitIdle is not looked at: after a failure, which
\* may come with submissions still running, the function goes on.
RcRebuildOf(results) ==
    /\ pc = "rc_idle"
    /\ \E caps \in SurfaceCaps(fb), created \in BOOLEAN, r \in results :
          LET extent == choose_vk_swap_extent(caps, SwapExtentWindow(variant))
              next == handle["swapchain"] + 1
              idle == IF r = "ok" THEN << >> ELSE << "idle_" \o r >> IN
          /\ r = "ok" => DeviceIdle(pending)
          /\ r # "ok" => eventsLeft > 0
          /\ eventsLeft' = IF r = "ok" THEN eventsLeft ELSE eventsLeft - 1
          /\ ~IsZeroSize(extent) => created
          /\ IF created
             THEN /\ handle' = [k \in AllKinds |->
                                  IF k \in RecreateKinds(variant) THEN next ELSE handle[k]]
                  /\ alive' = [k \in AllKinds |->
                                 IF k \in RecreateKinds(variant) THEN TRUE
                                 ELSE IF k \in CleanupSwapChainKinds(variant) THEN FALSE
                                 ELSE alive[k]]
                  /\ image_count' = SwapChainImageCount(caps)
                  /\ image_layout' = NewImages(SwapChainImageCount(caps))
                  /\ m_swap_chain_extent' = extent
                  /\ m_swap_chain_surface_format' =
                        choose_vk_swap_surface_format(caps.formats)[1]
                  /\ built' = [caps |-> caps, window |-> SwapExtentWindow(variant),
                                repeat |-> /\ caps = built.caps
                                           /\ SwapExtentWindow(variant) = built.window]
                  /\ pc' = ret
                  /\ log' = log \o idle \o << "rebuilt" >>
             ELSE /\ alive' = [k \in AllKinds |->
                                 IF k \in CleanupSwapChainKinds(variant) THEN FALSE
                                 ELSE alive[k]]
                  /\ pc' = "fatal"
                  /\ log' = log \o idle
                  /\ UNCHANGED << handle, image_count, m_swap_chain_extent,
                                  m_swap_chain_surface_format, built, image_layout >>
    /\ UNCHANGED << rt_output_view, semVars, runVars, fnVars, initVars >>
    /\ UNCHANGED << variant, ret, current_frame, fence, pending, m_window, rc_window,
                    m_framebuffer_resized, image_index, prev_present,
                    zero_acquires, windowVars >>

RcRebuild == RcRebuildOf({"ok"})

\* the present result recorded in a draw_frame's log
PresentResultIn(l) ==
    IF \E i \in DOMAIN l : l[i] = "pres_ood" THEN "ood"
    ELSE IF \E i \in DOMAIN l : l[i] = "pres_subopt" THEN "subopt"
    ELSE IF \E i \in DOMAIN l : l[i] = "pres_ok" THEN "ok"
    ELSE "none"

\* draw_frame returns; main_loop advances current_frame
EndFrame ==
    /\ pc = "end"
    /\ current_frame' = (current_frame + 1) % MaxFramesInFlight
    /\ prev_present' = PresentResultIn(log)
    /\ log' = << >>
    /\ pc' = "loop"
    /\ UNCHANGED << variant, ret, fence, pending, m_window, rc_window,
                    m_framebuffer_resized, image_index, eventsLeft, zero_acquires,
                    windowVars, swapVars, descVars, semVars, runVars, fnVars, initVars, image_layout >>

\* --- run and main: shutdown ------------------------------------------------------
\* objects that cleanup_vulkan destroys (cleanup_vk_swap_chain included; the
\* descriptor sets go with their pools); the uniform buffers are handled apart
CleanupVulkanKinds(v) ==
    IF v = "st"
    THEN CleanupSwapChainKinds("st") \cup
         {"descriptor_pool", "descriptor_sets", "descriptor_set_layout", "index_buffer",
          "vertex_buffer", "sync_objects", "command_pools", "device"}
    ELSE CleanupSwapChainKinds("rt") \cup
         {"rt_shader_binding_table", "rt_pipeline", "rt_descriptor_pool",
          "rt_descriptor_set", "acceleration_structures", "texture",
          "descriptor_pool", "descriptor_sets", "descriptor_set_layout", "index_buffer",
          "vertex_buffer", "sync_objects", "command_pools", "device"}

\* number of uniform buffers the loop of cleanup_vulkan destroys:
\* for (i = 0; i < m_swap_chain_images.size(); ++i)
UniformBuffersDestroyed(count) == count

\* main_loop returns: st when the while test failed; rt when the event loop
\* ended, stop = true was stored and render_thread.join() returned
MainLoopDone(v, p, s) == IF v = "st" THEN p = "stopped" ELSE s /\ p = "stopped"

\* the log notes whether GPU work is outstanding when cleanup_vulkan is entered
MainLoopReturns ==
    /\ run = "main_loop"
    /\ MainLoopDone(variant, pc, stop)
    /\ run' = "cleanup_vulkan"
    /\ log' = IF pending # << >> THEN Append(log, "outstanding") ELSE log
    /\ UNCHANGED << variant, pc, ret, current_frame, fence, pending, m_window, rc_window,
                    m_framebuffer_resized, image_index, eventsLeft, prev_present,
                    zero_acquires, windowVars, swapVars, descVars, semVars, fnVars, initVars, image_layout,
                    exit_code, m_uniform_buffers, stray_destroy >>

\* (mutation) cleanup_vulkan does not wait for the device
CleanupDeviceIdleNotAwaited(p) == TRUE

\* the vkDeviceWaitIdle that opens cleanup_vulkan
CleanupDeviceIdle(p) == p = << >>

CleanupWaitIdle ==
    /\ run = "cleanup_vulkan"
    /\ CleanupDeviceIdle(pending)
    /\ run' = "destroy"
    /\ UNCHANGED << variant, pc, ret, current_frame, fence, pending, m_window, rc_window,
                    m_framebuffer_resized, image_index, eventsLeft, log, prev_present,
                    zero_acquires, windowVars, swapVars, descVars, semVars, fnVars, initVars, image_layout,
                    exit_code, m_uniform_buffers, stray_destroy >>

\* the vkDestroy* / vkFree* calls of cleanup_vulkan.  The uniform buffer loop runs
\* over the current number of swapchain images: buffers beyond it stay alive,
\* and an index beyond the vector reads past its end, after which the process
\* goes on or crashes.
CleanupDestroy ==
    /\ run = "destroy"
    /\ alive' = [k \in AllKinds |->
                   IF k \in CleanupVulkanKinds(variant) THEN FALSE
                   ELSE IF k = "uniform_buffers"
                        THEN alive[k] /\ UniformBuffersDestroyed(image_count) < m_uniform_buffers
                        ELSE alive[k]]
    /\ stray_destroy' = (UniformBuffersDestroyed(image_count) > m_uniform_buffers)
    /\ \/ run' = "destroyed"
       \/ stray_destroy' /\ run' = "crashed"
    /\ UNCHANGED << variant, pc, ret, current_frame, fence, pending, m_window, rc_window,
                    m_framebuffer_resized, image_index, eventsLeft, log, prev_present,
                    zero_acquires, windowVars, image_count, m_swap_chain_extent,
                    m_swap_chain_surface_format, handle, built, descVars, semVars, fnVars, initVars, image_layout,
                    exit_code, m_uniform_buffers >>

\* run returns to main: exit_code = 0; return exit_code
MainReturns ==
    /\ run = "destroyed"
    /\ exit_code' = 0
    /\ run' = "exited"
    /\ UNCHANGED << variant, pc, ret, current_frame, fence, pending, m_window, rc_window,
                    m_framebuffer_resized, image_index, eventsLeft, log, prev_present,
                    zero_acquires, windowVars, swapVars, descVars, semVars, fnVars, initVars, image_layout,
                    m_uniform_buffers, stray_destroy >>

\* where a std::runtime_error thrown by draw_frame ends up: st runs draw_frame
\* under main's try block; rt runs it in the render thread's lambda, which has
\* no handler, so std::terminate is called
ExceptionHandler(v) == IF v = "st" THEN "catch" ELSE "terminate"

\* the exception leaves draw_frame: main's catch logs it and main returns
\* exit_code, still 1; or the process is terminated
Unwind ==
    /\ run = "main_loop"
    /\ pc = "fatal"
    /\ run' = IF ExceptionHandler(variant) = "catch" THEN "exited" ELSE "terminated"
    /\ UNCHANGED << variant, pc, ret, current_frame, fence, pending, m_window, rc_window,
                    m_framebuffer_resized, image_index, eventsLeft, log, prev_present,
                    zero_acquires, windowVars, swapVars, descVars, semVars, fnVars, initVars, image_layout,
                    exit_code, m_uniform_buffers, stray_destroy >>

Next ==
    \/ MainLoopReturns
    \/ CleanupWaitIdle
    \/ CleanupDestroy
    \/ MainReturns
    \/ Unwind
    \/ MainLoopTest
    \/ PollEvents
    \/ WaitFence
    \/ CheckResize
    \/ QuerySize
    \/ ClearFlag
    \/ Acquire
    \/ ResetFence
    \/ Record
    \/ Submit
    \/ Present
    \/ RcSize
    \/ RcWait
    \/ RcRebuild
    \/ EndFrame
    \/ GpuComplete
    \/ EventThreadResize
    \/ EventThreadClose

Spec == Init /\ [][Next]_vars

\* --- a run with no resize, no close request and no failing GPU call ------------
PollNoEvent == PollEventsOf({"none"})
AcquireNoError == AcquireOf(AcquireResults \ {"err"})
SubmitNoError == SubmitOf(SubmitResults \ {"err"})
PresentNoError == PresentOf(PresentResults \ {"err"})

RenderSteady ==
    \/ MainLoopTest
    \/ PollNoEvent
    \/ WaitFence
    \/ CheckResize
    \/ AcquireNoError
    \/ ResetFence
    \/ Record
    \/ SubmitNoError
    \/ PresentNoError
    \/ RcSize
    \/ RcRebuild
    \/ EndFrame

NextSteady == RenderSteady \/ GpuComplete

\* the thread that runs main_loop keeps running, and the GPU completes what was
\* submitted to it
SteadySpec ==
    Init /\ [][NextSteady]_vars /\ WF_vars(RenderSteady) /\ WF_vars(GpuComplete)

\* --- init_vulkan from create_vk_rt_acceleration_structures on, then frames ------
\* run() calls main_loop once init_vulkan has returned
MainLoopAfterInit == rt_as.step = "done" /\ NextSteady

InitNext ==
    \/ vku_begin_single_time_commands
    \/ create_vk_rt_bottom_level_as
    \/ AddInstance
    \/ GenerateTopLevel
    \/ AsQueueSubmit
    \/ AsGpuExecute
    \/ AsQueueWaitIdle
    \/ create_vk_rt_descriptor_set
    \/ MainLoopAfterInit

InitSpec == InitVulkanInit /\ [][InitNext]_vars

\* --- a run with resizes and close requests in which no GPU call fails ----------
\* the steps of the thread that runs the frame loop
LiveThread ==
    \/ MainLoopTest
    \/ PollEvents
    \/ WaitFence
    \/ CheckResize
    \/ QuerySize
    \/ ClearFlag
    \/ AcquireNoError
    \/ ResetFence
    \/ Record
    \/ SubmitNoError
    \/ PresentNoError
    \/ RcSize
    \/ RcRebuild
    \/ EndFrame

\* the steps of run() and main() after main_loop
LiveShutdown ==
    \/ MainLoopReturns
    \/ CleanupWaitIdle
    \/ CleanupDestroy
    \/ MainReturns

\* what the user does to the window while the program sits in glfwWaitEvents
LiveEvents ==
    \/ RcWait
    \/ EventThreadResize
    \/ EventThreadClose

LiveNext == LiveThread \/ LiveShutdown \/ LiveEvents \/ GpuComplete

\* the threads of the program keep running and the GPU completes what it was
\* given; the user need not do anything
LiveSpec ==
    /\ Init /\ [][LiveNext]_vars
    /\ WF_vars(LiveThread) /\ WF_vars(LiveShutdown) /\ WF_vars(GpuComplete)

\* --- a run in which the calls whose result draw_frame and
\* recreate_vk_swap_chain do not test can fail, and no other call does -----------
WaitFenceFaulty == WaitFenceOf(FenceResults)
ResetFenceFaulty == ResetFenceOf(FenceResults)
RcRebuildFaulty == RcRebuildOf(WaitIdleResults)

NextFaulty ==
    \/ MainLoopTest
    \/ PollNoEvent
    \/ WaitFenceFaulty
    \/ CheckResize
    \/ AcquireNoError
    \/ ResetFenceFaulty
    \/ Record
    \/ SubmitNoError
    \/ PresentNoError
    \/ RcSize
    \/ RcRebuildFaulty
    \/ EndFrame
    \/ GpuComplete

FaultSpec == Init /\ [][NextFaulty]_vars

\* --- the functions applied to what a device can report -------------------------
\* memoryTypes[0 .. memoryTypeCount - 1].propertyFlags
MemoryTypeLists ==
    UNION { [1 .. n -> 0 .. (2 ^ MaxFlagBits - 1)] : n \in 0 .. MaxMemoryTypes }

\* capabilities of a surface as far as choose_vk_swap_extent reads them: the
\* current extent is the sentinel or lies between the minimum and the maximum
ExtentCapabilities ==
    { c \in [currentExtent : {<< ExtentSentinel, ExtentSentinel >>} \cup
                               ((0 .. (MaxDim + 1)) \X (0 .. (MaxDim + 1))),
              minImageExtent : {<< 0, 0 >>, << 1, 1 >>, << 1, 2 >>},
              maxImageExtent : {<< MaxDim, MaxDim >>, << MaxDim, MaxDim + 1 >>,
                                << MaxDim + 1, MaxDim + 1 >>}] :
        \/ c.currentExtent[1] = ExtentSentinel
        \/ \A d \in 1 .. 2 : /\ c.minImageExtent[d] <= c.currentExtent[d]
                              /\ c.currentExtent[d] <= c.maxImageExtent[d] }

\* sample-count masks a device can report: VK_SAMPLE_COUNT_1_BIT and
\* VK_SAMPLE_COUNT_4_BIT are always supported
SampleCountMasks ==
    { m \in 0 .. (2 ^ SampleCountBits - 1) : BitAnd(m, 1) # 0 /\ BitAnd(m, 4) # 0 }

FnInputs ==
    { [fn |-> "vku_find_memory_type", types |-> t, type_filter |-> f, properties |-> p] :
        t \in MemoryTypeLists, f \in 0 .. (2 ^ MaxMemoryTypes - 1),
        p \in 0 .. (2 ^ MaxFlagBits - 1) }
    \cup
    { [fn |-> "choose_vk_swap_extent", capabilities |-> c, window |-> w] :
        c \in ExtentCapabilities, w \in (0 .. (MaxDim + 1)) \X (0 .. (MaxDim + 1)) }
    \cup
    { [fn |-> "get_vk_max_usable_sample_count", color |-> c, depth |-> d] :
        c \in SampleCountMasks, d \in SampleCountMasks }

\* the application is the ray tracer on the surface that asks for two images
FnInit ==
    /\ InitApp /\ variant = "rt" /\ built.caps.minImageCount = 2
    /\ fn_in \in FnInputs /\ fn_out = NotReturned
    /\ rt_as = AsDone

Call_vku_find_memory_type ==
    /\ fn_in.fn = "vku_find_memory_type"
    /\ ~fn_out.done
    /\ fn_out' = vku_find_memory_type(fn_in.types, fn_in.type_filter, fn_in.properties)
    /\ UNCHANGED << variant, pc, ret, current_frame, fence, pending, m_window, rc_window,
                    m_framebuffer_resized, image_index, eventsLeft, log, prev_present,
                    zero_acquires, windowVars, swapVars, descVars, semVars, runVars, fn_in, initVars,
                    image_layout >>

Call_choose_vk_swap_extent ==
    /\ fn_in.fn = "choose_vk_swap_extent"
    /\ ~fn_out.done
    /\ fn_out' = Returned(choose_vk_swap_extent(fn_in.capabilities, fn_in.window))
    /\ UNCHANGED << variant, pc, ret, current_frame, fence, pending, m_window, rc_window,
                    m_framebuffer_resized, image_index, eventsLeft, log, prev_present,
                    zero_acquires, windowVars, swapVars, descVars, semVars, runVars, fn_in, initVars,
                    image_layout >>

Call_get_vk_max_usable_sample_count ==
    /\ fn_in.fn = "get_vk_max_usable_sample_count"
    /\ ~fn_out.done
    /\ fn_out' = Returned(get_vk_max_usable_sample_count(fn_in.color, fn_in.depth))
    /\ UNCHANGED << variant, pc, ret, current_frame, fence, pending, m_window, rc_window,
                    m_framebuffer_resized, image_index, eventsLeft, log, prev_present,
                    zero_acquires, windowVars, swapVars, descVars, semVars, runVars, fn_in, initVars,
                    image_layout >>

FnNext ==
    \/ Call_vku_find_memory_type
    \/ Call_choose_vk_swap_extent
    \/ Call_get_vk_max_usable_sample_count

FnSpec == FnInit /\ [][FnNext]_vars

TypeOK ==
    /\ variant \in Variants
    /\ current_frame \in Slots
    /\ fb \in Sizes
    /\ pc \in {"reset", "record", "submit", "present"} => image_index \in 0 .. (image_count - 1)

\* --- properties ------------------------------------------------------------------
InRecreate == pc \in {"rc_size", "rc_wait", "rc_idle"}
Presented == Has("pres_ok") \/ Has("pres_subopt") \/ Has("pres_ood") \/ Has("pres_err")

FenceAccounted ==
    \A f \in Slots :
        ~fence[f] => \/ \E i \in DOMAIN pending : pending[i].slot = f
                     \/ f = current_frame /\ pc \in {"record", "submit"}

\* C2: with no resize and a GPU that completes what is submitted, every slot is
\* visited again and again in the order 0, 1, ..., N-1, 0, ..., every wait on a
\* fence returns, and an unsignaled fence always has its submission in flight.
C2_SlotsCycleNoDeadlock ==
    /\ \A f \in Slots : []<>(pc = "wait" /\ current_frame = f)
    /\ (pc = "wait") ~> (pc # "wait")
    /\ [][current_frame' # current_frame =>
             current_frame' = (current_frame + 1) % MaxFramesInFlight]_vars
    /\ []FenceAccounted

\* C2 witness: draw_frame blocked on the fence of a slot whose submission is in flight
C2_Witness == pc = "wait" /\ ~fence[current_frame] /\ Len(pending) = MaxFramesInFlight

\* C3: a draw_frame whose acquisition reported out-of-date runs the recreation and
\* returns: it resets no fence, submits nothing and presents nothing.
C3_AcquireOutOfDateAborts ==
    Has("acq_ood") =>
        /\ Then("acq_ood", "recreate")
        /\ ~Has("reset") /\ ~Has("submit") /\ ~Presented
        /\ InRecreate \/ pc \in {"end", "fatal"}
        /\ pc = "end" => Then("acq_ood", "rebuilt")

\* C3 witness: a frame aborted by an out-of-date acquisition has returned
C3_Witness == pc = "end" /\ Has("acq_ood") /\ Has("rebuilt")

PresentedStale == Has("pres_ood") \/ Has("pres_subopt")
RecreatedAfterPresent ==
    \E e \in {"pres_ok", "pres_subopt", "pres_ood", "pres_err"} : Then(e, "recreate")

\* C4 as stated: a draw_frame that presented with an out-of-date or suboptimal
\* result, or with the resize flag set at that point, has invoked the recreation
\* when it returns.
C4_RecreatesAfterPresentOrFlag ==
    pc = "end" /\ (PresentedStale \/ Has("flag_set")) => RecreatedAfterPresent

\* C4 amended: after an out-of-date or suboptimal presentation the recreation is
\* invoked before draw_frame returns; st does the same when the resize flag is set
\* at that point and clears the flag; rt leaves a flag set at that point alone, and
\* the flag is only ever cleared by the step that goes on to recreate: in rt at the
\* start of a later draw_frame that read a nonzero size, before it acquires.
C4_Amended ==
    /\ [](pc = "end" /\ PresentedStale => RecreatedAfterPresent)
    /\ [](pc = "end" /\ variant = "st" /\ Has("flag_set") =>
             RecreatedAfterPresent /\ Has("rebuilt"))
    /\ [](pc = "end" /\ variant = "rt" /\ Has("flag_set") => m_framebuffer_resized)
    /\ [](variant = "rt" /\ Has("resize_check") =>
             \/ pc \in {"query", "clear"}
             \/ Has("size0")
             \/ Len(log) >= 2 /\ log[2] = "recreate")
    /\ [][m_framebuffer_resized /\ ~m_framebuffer_resized' =>
             pc' = RecreateEntry(variant) /\ log'[Len(log')] = "recreate"]_vars

\* C4 witness: st presented successfully with the resize flag set and rebuilt the
\* swapchain before returning
C4_Witness ==
    pc = "end" /\ variant = "st" /\ Has("flag_set") /\ Has("pres_ok") /\ Has("rebuilt")

\* C5 as stated: a draw_frame whose acquisition reported suboptimal submits,
\* presents and then runs the recreation, whatever the presentation reported.
C5_SuboptimalAcquireRecreates ==
    pc = "end" /\ Has("acq_subopt") =>
        Has("submit") /\ Presented /\ RecreatedAfterPresent

\* C5 amended: a draw_frame whose acquisition reported suboptimal is not aborted
\* (it submits and presents); the recreation runs at the end of that frame exactly
\* when the presentation reports out-of-date or suboptimal or, in st, the resize
\* flag is set at that point.
C5_Amended ==
    /\ Then("acq_subopt", "recreate") => Has("submit") /\ Presented
    /\ pc = "end" /\ Has("acq_subopt") =>
          /\ Has("submit") /\ Presented
          /\ RecreatedAfterPresent <=>
                (PresentedStale \/ (variant = "st" /\ Has("flag_set")))

\* C5 witness: suboptimal acquisition, frame presented, recreation after an
\* out-of-date presentation
C5_Witness ==
    pc = "end" /\ Has("acq_subopt") /\ Has("pres_ood") /\ Has("rebuilt")

\* C6: in a run with no resize, an out-of-date presentation is followed by exactly
\* one recreation and no error; the next draw_frame is not skipped, runs no further
\* recreation before it acquires, and acquires and presents an index of the live,
\* rebuilt swapchain.
C6_PresentOutOfDateRecovered ==
    /\ pc # "fatal"
    /\ pc = "end" /\ Has("pres_ood") =>
          Count("recreate") = 1 /\ Count("rebuilt") = 1 /\ Then("pres_ood", "rebuilt")
    /\ prev_present = "ood" =>
          /\ ~Has("size0") /\ ~Has("resize_check")
          /\ Has("recreate") => Has("acq_ood") \/ Presented
    /\ prev_present = "ood" /\ pc \in {"reset", "record", "submit", "present"} =>
          /\ image_index \in 0 .. (image_count - 1)
          /\ alive["swapchain"] /\ handle["swapchain"] > 0

\* C6 witness: the frame after an out-of-date presentation has presented
C6_Witness == prev_present = "ood" /\ pc = "end" /\ Has("pres_ok")

\* C7 as stated: the recreation reaches vkDeviceWaitIdle and the rebuild only while
\* both dimensions of the framebuffer are nonzero.
C7_NeverBuildsAtZeroSize == pc = "rc_idle" => ~IsZeroSize(fb)

\* C8, allowing for the one draw_frame that is under way or about to start when
\* the size becomes zero: while a dimension of the framebuffer is zero the render
\* loop blocks, so no second image is acquired before the size is nonzero again.
C8_BlocksWhileZeroSize == zero_acquires <= 1

SwapchainDependent ==
    {"swapchain", "image_views", "render_pass", "graphics_pipeline", "pipeline_layout",
     "color_attachment", "depth_attachment", "framebuffers", "command_buffers"}

\* C10: across any number of recreations every other object keeps the handle it
\* got in init_vulkan and stays alive until cleanup_vulkan destroys it; the
\* swapchain-dependent objects are rebuilt together.
C10_RecreationKeepsOtherObjects ==
    /\ \A k \in InitKinds(variant) \ SwapchainDependent :
          /\ handle[k] = 0
          /\ run \in {"main_loop", "cleanup_vulkan", "destroy"} => alive[k]
    /\ \A k \in AllKinds \ InitKinds(variant) : handle[k] = 0 /\ ~alive[k]
    /\ \A k \in InitKinds(variant) \cap SwapchainDependent :
          /\ handle[k] = handle["swapchain"]
          /\ pc # "fatal" /\ run \in {"main_loop", "cleanup_vulkan", "destroy"} => alive[k]

\* C10 witness: two recreations have run
C10_Witness == pc = "end" /\ handle["swapchain"] = 2

\* the geometry and acceleration-structure objects
GeometryKinds ==
    {"vertex_buffer", "index_buffer", "material_buffer", "acceleration_structures"}

C19_ImageCountAtLeastFramesInFlight ==
    /\ image_count >= MaxFramesInFlight
    /\ \A caps \in SurfaceCaps(fb) :
          /\ SwapChainImageCount(caps) >= MaxFramesInFlight
          /\ caps.maxImageCount > 0 => SwapChainImageCount(caps) <= caps.maxImageCount

\* C12 as stated: the command buffer submitted for swapchain image index j reads
\* the uniform buffer of index j, the one draw_frame wrote for this frame.
C12_ReadsOwnUniformBuffer ==
    pc = "present" =>
        \A i \in DOMAIN pending :
            pending[i].slot = current_frame => pending[i].ubo = image_index

\* C13 as stated: when draw_frame is about to write the uniform buffer of the
\* acquired image index, no submission that reads that buffer is in flight.
C13_NoWriteWhileRead ==
    pc = "record" => \A i \in DOMAIN pending : pending[i].ubo # image_index

\* C14: in ray-tracing mode, once the trace-rays command of a draw_frame is
\* recorded, binding 1 of the ray-tracing descriptor set references the live image
\* view of the image index acquired in that call, also right after a recreation
\* replaced the image views.
C14_OutputImageIsAcquiredImage ==
    CurrentRenderingMode(variant) = "RayTracing" /\ pc = "submit" =>
        /\ rt_output_view = << handle["image_views"], image_index >>
        /\ alive["image_views"]

\* C14 witness: the first command buffer recorded after a recreation
C14_Witness ==
    /\ CurrentRenderingMode(variant) = "RayTracing" /\ pc = "submit"
    /\ Then("rebuilt", "record") /\ image_index = 1

\* C15: every submission waits on the image-available semaphore of its slot, the
\* one its frame's acquire signals, and signals the render-finished semaphore
\* and the fence of that slot; every present waits on the render-finished
\* semaphore of its own frame's submission, so no image is handed to
\* presentation while the submission of its frame is still running.
C15_PresentWaitsForOwnSubmission ==
    /\ pc = "submit" => image_available[current_frame]
    /\ \A i \in DOMAIN pending :
          /\ pending[i].wait = pending[i].slot
          /\ pending[i].signal = pending[i].slot
          /\ image_available[pending[i].wait]
          /\ ~fence[pending[i].slot]
          /\ ~pending[i].handed
    /\ \A j \in DOMAIN presents :
          /\ presents[j].wait = presents[j].slot
          /\ \E i \in DOMAIN pending : pending[i].signal = presents[j].wait

\* two presents wait, each for the submission of its own frame
C15_Witness ==
    /\ Len(presents) = 2 /\ Len(pending) = 2
    /\ presents[1].shows /\ presents[2].shows
    /\ presents[1].wait # presents[2].wait
\* C16: cleanup_vulkan runs only after the frame loop has stopped (rt: the stop
\* flag is set and the render thread has left its loop and was joined), and it
\* destroys objects only after its vkDeviceWaitIdle returned: whenever cleanup
\* is past that wait, every submission has completed, none is outstanding.
InCleanup == run \in {"cleanup_vulkan", "destroy", "destroyed", "crashed"}
PastCleanupWait == run \in {"destroy", "destroyed", "crashed"}

C17_FatalErrorsExitWithOne ==
    /\ pc = "fatal" /\ run # "main_loop" => run = "exited" /\ exit_code = 1
    /\ pc # "fatal" /\ run = "exited" => exit_code = 0

\* C20: after a clean shutdown no object created by init_vulkan or by a
\* recreation is alive, and cleanup_vulkan destroyed nothing it had not created
\* or had destroyed already.
C20_EverythingDestroyedOnce ==
    run = "exited" /\ exit_code = 0 =>
        /\ \A k \in AllKinds : ~alive[k]
        /\ ~stray_destroy
\* C18: when vkWaitForFences, vkResetFences or vkDeviceWaitIdle has returned an
\* error in the current draw_frame, a fatal error has been raised.
C18_NoFailingResultIgnored ==
    Has("wait_err") \/ Has("reset_err") \/ Has("idle_err") => pc = "fatal"
\* bit i of the unsigned value x is set
BitSet(x, i) == (x \div (2 ^ i)) % 2 = 1

\* C21: vku_find_memory_type returns the lowest index below memoryTypeCount whose
\* bit is set in the type filter and whose memory type has every required
\* property flag, and throws exactly when there is no such index.
C21_LowestSuitableMemoryType ==
    fn_in.fn = "vku_find_memory_type" /\ fn_out.done =>
        LET suitable == { i \in 0 .. (Len(fn_in.types) - 1) :
                            /\ BitSet(fn_in.type_filter, i)
                            /\ \A b \in 0 .. (MaxFlagBits - 1) :
                                  BitSet(fn_in.properties, b) => BitSet(fn_in.types[i + 1], b) }
        IN  IF suitable = {} THEN fn_out.thrown
            ELSE /\ ~fn_out.thrown
                 /\ fn_out.value \in suitable
                 /\ \A i \in suitable : fn_out.value <= i

\* the call skipped a type that the filter allows but that lacks a flag, and
\* returned a later one
C21_Witness ==
    /\ fn_in.fn = "vku_find_memory_type" /\ fn_out.done /\ ~fn_out.thrown
    /\ fn_out.value = 2
    /\ BitSet(fn_in.type_filter, 0)
    /\ fn_in.properties = 3
\* C22: the extent chosen for the swapchain lies between minImageExtent and
\* maxImageExtent in both dimensions, and when the surface reports the sentinel
\* as its current extent it is the window size moved into that range.
C22_ExtentWithinSurfaceLimits ==
    fn_in.fn = "choose_vk_swap_extent" /\ fn_out.done =>
        LET c == fn_in.capabilities
            e == fn_out.value IN
        \A d \in 1 .. 2 :
            /\ c.minImageExtent[d] <= e[d] /\ e[d] <= c.maxImageExtent[d]
            /\ c.currentExtent[1] = ExtentSentinel =>
                  \/ e[d] = fn_in.window[d]
                  \/ fn_in.window[d] < c.minImageExtent[d] /\ e[d] = c.minImageExtent[d]
                  \/ fn_in.window[d] > c.maxImageExtent[d] /\ e[d] = c.maxImageExtent[d]

\* a window wider than the maximum and lower than the minimum was clamped
C22_Witness ==
    /\ fn_in.fn = "choose_vk_swap_extent" /\ fn_out.done
    /\ fn_in.capabilities.currentExtent[1] = ExtentSentinel
    /\ fn_in.window = << MaxDim + 1, 0 >>
    /\ fn_out.value = << MaxDim, 1 >>

\* C30: the sample count returned is one sample-count bit, set in the color mask
\* and in the depth mask, and no higher bit is set in both.
C30_HighestCommonSampleCount ==
    fn_in.fn = "get_vk_max_usable_sample_count" /\ fn_out.done =>
        \E b \in 0 .. (SampleCountBits - 1) :
            /\ fn_out.value = 2 ^ b
            /\ BitSet(fn_in.color, b) /\ BitSet(fn_in.depth, b)
            /\ \A h \in (b + 1) .. (SampleCountBits - 1) :
                  ~(BitSet(fn_in.color, h) /\ BitSet(fn_in.depth, h))
\* C25: while the application runs, the uniform buffers (and with them the
\* rasterization descriptor sets, created with the same count) are as many as
\* the swapchain has images, and the acquired image index is in their range.
C25_ArraysMatchImageCount ==
    run = "main_loop" /\ pc # "fatal" =>
        /\ m_uniform_buffers = image_count
        /\ pc \in {"reset", "record", "submit", "present"} => image_index < m_uniform_buffers
\* C24: nothing holds back the descriptor update of a ray-tracing frame: whenever
\* draw_frame stands before update_vk_rt_render_target, the update can be taken,
\* whatever submissions are still in flight.
C24_DescriptorUpdateNotHeldBack ==
    CurrentRenderingMode(variant) = "RayTracing" /\ pc = "record" => ENABLED Record

\* the binding of the one ray-tracing descriptor set has been rewritten for
\* another image while a submission that traces with that set is in flight
C24_Witness ==
    /\ CurrentRenderingMode(variant) = "RayTracing" /\ pc = "submit"
    /\ image_count = MaxFramesInFlight
    /\ rt_output_view = SwapChainImageView(image_index)
    /\ \E i \in DOMAIN pending :
          pending[i].image # image_index /\ pending[i].cb = handle["command_buffers"]

\* C26: in ray-tracing mode draw_frame does not begin to re-record the command
\* buffer of the acquired image while a submission of that command buffer is
\* still in flight.
C26_NoRerecordWhileInFlight ==
    CurrentRenderingMode(variant) = "RayTracing" /\ pc = "record" =>
        \A i \in DOMAIN pending :
            ~(pending[i].image = image_index /\ pending[i].cb = handle["command_buffers"])
\* C29: in ray-tracing mode the image that the recorded barrier is about to run
\* on is in the layout the barrier declares as old, present-source, also the
\* first time the image is used after the swapchain was built; and the image
\* handed to presentation is in present-source layout.
C29_BarrierOldLayoutMatches ==
    CurrentRenderingMode(variant) = "RayTracing" =>
        /\ pc = "submit" => image_layout[image_index] = BarrierOldLayout
        /\ pc = "present" => image_layout[image_index] = "PRESENT_SRC_KHR"
C27_NoResizeLost ==
    (variant = "rt" /\ ~m_framebuffer_resized /\ run = "main_loop"
        /\ pc \in {"loop", "wait", "check", "acquire", "reset", "record", "submit",
                   "present", "end"})
        => built.window = fb
\* C28: once closing the window has been requested the application leaves its
\* frame loop and reaches cleanup_vulkan, whatever state the request arrives in,
\* the minimized window included, and without further input from the user.
C28_CloseReachesCleanup == shouldClose ~> (InCleanup \/ run = "exited")
====
